---- MODULE Spec2Model ----
(***************************************************************************)
(* Model of password_tool: the secure generator (generator.py) and the     *)
(* strength checker (checker.py).                                          *)
(*                                                                         *)
(* A character is its Unicode code point (ord), a string is a sequence of  *)
(* code points.  The character classes are the full catalogs of the        *)
(* source.  The secure random source is a tape of draws: the k-th draw of  *)
(* the tape decides the k-th call of secrets.randbelow / secrets.choice.   *)
(***************************************************************************)
EXTENDS Integers, Sequences, FiniteSets, TLC

VARIABLES
  policy,            \* generator: arguments of the generate_password call
  rng,               \* generator: the tape of the secure random source
  drawn,             \* generator: number of draws consumed from the tape
  calls,             \* generator: number of generate_password calls made
  result,            \* generator: what the last call returned or raised
  common_passwords,  \* checker: self.common_passwords, in iteration order
  password,          \* checker: the caller's input string
  verdict,           \* checker: what the last check_password call returned
  list_arg,          \* _shuffle_list: the caller's list object (items)
  list_ret,          \* _shuffle_list: the list the call returned
  batch_count,       \* generate_multiple: the count argument
  batch,             \* generate_multiple: what the call returned or raised
  pc,                \* shared engine: where each caller of check_password is
  arg,               \* shared engine: the password each caller passed
  ret,               \* shared engine: the verdict each caller got back
  suffix,            \* diversity: the string appended to password
  diversity,         \* diversity: the sub-scores before and after appending
  size_flags,        \* utilities: the five flags handed to get_charset_size
  entropy_len,       \* utilities: the password_length handed to calculate_entropy
  utility,           \* utilities: the charset size and the entropy returned
  source,            \* construction: the file behind common_passwords_file
  engine,            \* construction: how PasswordChecker(filepath) ended
  tried,             \* permutations: number of draw sequences shuffled with
  outputs,           \* permutations: the lists _shuffle_list returned so far
  leet_in,           \* de-leet: the string handed to _normalize_leet_speak
  leet_out           \* de-leet: what _normalize_leet_speak returned

vars == <<policy, rng, drawn, calls, result, common_passwords, password, verdict,
          list_arg, list_ret, batch_count, batch, pc, arg, ret, suffix, diversity,
          size_flags, entropy_len, utility, source, engine, tried, outputs,
          leet_in, leet_out>>

genVars == <<policy, rng, drawn, calls, result>>
checkVars == <<common_passwords, password, verdict>>
shuffleVars == <<list_arg, list_ret>>
batchVars == <<batch_count, batch>>
sharedVars == <<pc, arg, ret>>
diversityVars == <<suffix, diversity>>
entropyVars == <<size_flags, entropy_len, utility>>
loadVars == <<source, engine>>
permuteVars == <<tried, outputs>>
leetVars == <<leet_in, leet_out>>
moreVars == <<loadVars, permuteVars, leetVars>>

\* the variables of the utility calls, which the two main calls leave alone
utilVars == <<shuffleVars, batchVars, sharedVars, diversityVars, entropyVars,
              moreVars>>

(* ---------------------------- bounds ----------------------------------- *)
MaxLen  == 12   \* largest policy length tried
TapeLen == 2    \* period of the random tape
MaxRand == 7    \* a draw of the tape is a value in 0..MaxRand
MaxCalls == 1   \* generate_password calls per behaviour
MaxItems == 4   \* longest list handed to _shuffle_list
MaxCount == 2   \* largest count handed to generate_multiple
MaxCallers == 2 \* callers that share one PasswordChecker
MaxLong == 220  \* longest of the long passwords handed to check_password

(* ------------------------- small helpers ------------------------------- *)
Range(s) == {s[i] : i \in DOMAIN s}

Count(s, S) == Cardinality({i \in DOMAIN s : s[i] \in S})

Max(a, b) == IF a >= b THEN a ELSE b

(* ------------------ generator.py: class constants ---------------------- *)
\* string.ascii_lowercase
LOWERCASE == [i \in 1..26 |-> 96 + i]
\* string.ascii_uppercase
UPPERCASE == [i \in 1..26 |-> 64 + i]
\* string.digits
DIGITS == [i \in 1..10 |-> 47 + i]
\* "!@#$%^&*()_+-=[]{}|;:',<>?/.~"
SPECIAL == <<33, 64, 35, 36, 37, 94, 38, 42, 40, 41, 95, 43, 45, 61, 91, 93,
             123, 125, 124, 59, 58, 39, 44, 60, 62, 63, 47, 46, 126>>
\* "0O1lI|`"
AMBIGUOUS == <<48, 79, 49, 108, 73, 124, 96>>
\* "bcdfghjklmnprstvwxyz" and "aeiou" of _generate_readable_password
consonants == <<98, 99, 100, 102, 103, 104, 106, 107, 108, 109, 110, 112,
                114, 115, 116, 118, 119, 120, 121, 122>>
vowels == <<97, 101, 105, 111, 117>>

\* str.upper() on a string of ASCII lowercase letters
upper(s) == [i \in DOMAIN s |-> IF s[i] \in 97..122 THEN s[i] - 32 ELSE s[i]]

PasswordStrength == {"WEAK", "MEDIUM", "STRONG", "VERY_STRONG"}

\* the length floor of generate_password
MIN_LENGTH == 8

(* ------------------ the secure random source --------------------------- *)
\* The characters the random source of the model hands out: of every class
\* one ambiguous and one unambiguous character
\*   a (vowel), l (consonant, ambiguous), I (ambiguous), L (consonant),
\*   0 (ambiguous), 7, ! , | (ambiguous)
Tracked == {97, 108, 73, 76, 48, 55, 33, 124}

Tapes == [1..TapeLen -> 0..MaxRand]

\* the k-th draw (k >= 1) of the tape
Draw(k) == rng[((k - 1) % TapeLen) + 1]

\* secrets.randbelow(n) as draw number k: a value in 0..n-1
randbelow(n, k) == Draw(k) % n

\* secrets.choice(seq) as draw number k: one of the tracked elements of seq
choice(seq, k) ==
  LET s == SelectSeq(seq, LAMBDA c : c \in Tracked)
  IN  s[randbelow(Len(s), k) + 1]

(* ------------------ generator.py: utility methods ---------------------- *)
\* _remove_ambiguous that returns the charset as it is
_remove_ambiguous_Keep(charset) == charset

\* _remove_ambiguous: the characters of charset that are not in AMBIGUOUS
_remove_ambiguous(charset) ==
  SelectSeq(charset, LAMBDA c : c \notin Range(AMBIGUOUS))

\* the exchange that writes position a only
Swap_Overwrite(s, a, b) == [s EXCEPT ![a] = s[b]]

\* shuffled[i], shuffled[j] = shuffled[j], shuffled[i]
Swap(s, a, b) == [s EXCEPT ![a] = s[b], ![b] = s[a]]

\* the loop of _shuffle_list: for i in range(n-1, 0, -1), 0-based index i,
\* the first randbelow being draw number k
RECURSIVE ShuffleFrom(_, _, _)
ShuffleFrom(shuffled, i, k) ==
  IF i < 1 THEN shuffled
  ELSE LET j == randbelow(i + 1, k)
       IN  ShuffleFrom(Swap(shuffled, i + 1, j + 1), i - 1, k + 1)

\* _shuffle_list whose loop starts at n-2: the last item is never exchanged
_shuffle_list_SkipLast(items, k0) == ShuffleFrom(items, Len(items) - 2, k0 + 1)

\* _shuffle_list(items): Fisher-Yates on a copy, draws k0+1 .. k0+n-1
_shuffle_list(items, k0) == ShuffleFrom(items, Len(items) - 1, k0 + 1)

\* [secrets.choice(charset) for _ in range(n)], draws k0+1 .. k0+n
Fill(charset, n, k0) == [i \in 1..n |-> choice(charset, k0 + i)]

(* ------------------ generator.py: the generators ----------------------- *)
\* every generator returns the password and the number of draws it used

\* _generate_weak whose charset also holds the special catalog
_generate_weak_WithSpecial(length, k0) ==
  LET charset == LOWERCASE \o UPPERCASE \o DIGITS \o SPECIAL
  IN  [value |-> Fill(charset, length, k0), used |-> length]

_generate_weak(length, k0) ==
  LET charset == LOWERCASE \o UPPERCASE \o DIGITS
  IN  [value |-> Fill(charset, length, k0), used |-> length]

\* Assemble with the fill computed from the full length: the required
\* characters are not subtracted
Assemble_FillWholeLength(required, charset, length, k0) ==
  LET r == Len(required)
      n == length
      password_chars == required \o Fill(charset, n, k0 + r)
  IN  [value |-> _shuffle_list(password_chars, k0 + r + n),
       used  |-> r + n + Max(Len(password_chars) - 1, 0)]

\* required + fill + shuffle, common to the three guaranteed tiers
Assemble(required, charset, length, k0) ==
  LET r == Len(required)
      remaining == length - r
      n == IF remaining > 0 THEN remaining ELSE 0
      password_chars == required \o Fill(charset, n, k0 + r)
  IN  [value |-> _shuffle_list(password_chars, k0 + r + n),
       used  |-> r + n + Max(Len(password_chars) - 1, 0)]

_generate_medium(length, include_special, exclude_ambiguous, k0) ==
  LET c0 == LOWERCASE \o UPPERCASE \o DIGITS
      c1 == IF include_special THEN c0 \o SPECIAL ELSE c0
      charset == IF exclude_ambiguous THEN _remove_ambiguous(c1) ELSE c1
      req3 == <<choice(UPPERCASE, k0 + 1), choice(LOWERCASE, k0 + 2),
                choice(DIGITS, k0 + 3)>>
      required == IF include_special /\ Len(SPECIAL) > 0
                  THEN Append(req3, choice(SPECIAL, k0 + 4))
                  ELSE req3
  IN  Assemble(required, charset, length, k0)

_generate_strong(length, include_special, exclude_ambiguous, k0) ==
  LET c0 == LOWERCASE \o UPPERCASE \o DIGITS \o SPECIAL
      charset == IF exclude_ambiguous THEN _remove_ambiguous(c0) ELSE c0
      required == <<choice(UPPERCASE, k0 + 1), choice(LOWERCASE, k0 + 2),
                    choice(DIGITS, k0 + 3), choice(SPECIAL, k0 + 4)>>
  IN  Assemble(required, charset, length, k0)

\* _generate_very_strong that guarantees one character of each class only
_generate_very_strong_OneEach(length, exclude_ambiguous, k0) ==
  LET c0 == LOWERCASE \o UPPERCASE \o DIGITS \o SPECIAL
      charset == IF exclude_ambiguous THEN _remove_ambiguous(c0) ELSE c0
      required == <<choice(UPPERCASE, k0 + 1), choice(LOWERCASE, k0 + 2),
                    choice(DIGITS, k0 + 3), choice(SPECIAL, k0 + 4)>>
  IN  Assemble(required, charset, length, k0)

_generate_very_strong(length, exclude_ambiguous, k0) ==
  LET c0 == LOWERCASE \o UPPERCASE \o DIGITS \o SPECIAL
      charset == IF exclude_ambiguous THEN _remove_ambiguous(c0) ELSE c0
      required == <<choice(UPPERCASE, k0 + 1), choice(UPPERCASE, k0 + 2),
                    choice(LOWERCASE, k0 + 3), choice(LOWERCASE, k0 + 4),
                    choice(DIGITS, k0 + 5), choice(DIGITS, k0 + 6),
                    choice(SPECIAL, k0 + 7), choice(SPECIAL, k0 + 8)>>
  IN  Assemble(required, charset, length, k0)

\* _generate_readable_password that never takes consonants.upper()
_generate_readable_password_NoCapital(length, include_special, k0) ==
  LET base == [p \in 1..length |->
                 IF (p - 1) % 2 = 0 THEN choice(consonants, k0 + p)
                 ELSE choice(vowels, k0 + p)]
      idx1 == randbelow(length - 2, k0 + length + 1)
      idx2 == randbelow(length - 2, k0 + length + 2)
      withDigit == [base EXCEPT ![idx1 + 1] = choice(DIGITS, k0 + length + 3)]
      withBoth == [withDigit EXCEPT ![idx2 + 1] = choice(SPECIAL, k0 + length + 4)]
  IN  IF include_special /\ length >= 12
      THEN [value |-> withBoth, used |-> length + 4]
      ELSE [value |-> base, used |-> length]

_generate_readable_password(length, include_special, k0) ==
  LET \* position i is 0-based; is_consonant holds at the even positions
      base == [p \in 1..length |->
                 LET i == p - 1
                 IN  IF i % 2 = 0
                     THEN choice(IF i % 5 = 0 THEN upper(consonants)
                                 ELSE consonants, k0 + p)
                     ELSE choice(vowels, k0 + p)]
      idx1 == randbelow(length - 2, k0 + length + 1)
      idx2 == randbelow(length - 2, k0 + length + 2)
      withDigit == [base EXCEPT ![idx1 + 1] = choice(DIGITS, k0 + length + 3)]
      withBoth == [withDigit EXCEPT ![idx2 + 1] = choice(SPECIAL, k0 + length + 4)]
  IN  IF include_special /\ length >= 12
      THEN [value |-> withBoth, used |-> length + 4]
      ELSE [value |-> base, used |-> length]

\* generate_password that validates the length after the readable branch
generate_password_ReadableFirst(length, strength, include_special, exclude_ambiguous, readable, k0) ==
  IF readable
  THEN LET g == _generate_readable_password(length, include_special, k0)
       IN  [ok |-> TRUE, value |-> g.value, used |-> g.used]
  ELSE IF length < MIN_LENGTH
  THEN [ok |-> FALSE, value |-> <<>>, used |-> 0]
  ELSE LET g == CASE strength = "WEAK" -> _generate_weak(length, k0)
                  [] strength = "MEDIUM" ->
                       _generate_medium(length, include_special, exclude_ambiguous, k0)
                  [] strength = "STRONG" ->
                       _generate_strong(length, include_special, exclude_ambiguous, k0)
                  [] OTHER -> _generate_very_strong(length, exclude_ambiguous, k0)
       IN  [ok |-> TRUE, value |-> g.value, used |-> g.used]

\* generate_password: ok = FALSE is the raised ValueError
generate_password(length, strength, include_special, exclude_ambiguous, readable, k0) ==
  IF length < MIN_LENGTH
  THEN [ok |-> FALSE, value |-> <<>>, used |-> 0]
  ELSE LET g == IF readable
                THEN _generate_readable_password(length, include_special, k0)
                ELSE CASE strength = "WEAK" -> _generate_weak(length, k0)
                       [] strength = "MEDIUM" ->
                            _generate_medium(length, include_special, exclude_ambiguous, k0)
                       [] strength = "STRONG" ->
                            _generate_strong(length, include_special, exclude_ambiguous, k0)
                       [] OTHER -> _generate_very_strong(length, exclude_ambiguous, k0)
       IN  [ok |-> TRUE, value |-> g.value, used |-> g.used]

(* ------------------ generator.py: batch operations --------------------- *)
\* the list comprehension of generate_multiple with n calls still to make,
\* the next call drawing from draw k0 + 1; a ValueError of generate_password
\* ends it (ok = FALSE)
RECURSIVE BatchFrom(_, _, _, _)
BatchFrom(n, length, strength, k0) ==
  IF n <= 0 THEN [ok |-> TRUE, value |-> <<>>, used |-> 0]
  ELSE LET g == generate_password(length, strength, TRUE, TRUE, FALSE, k0)
       IN  IF ~g.ok THEN [ok |-> FALSE, value |-> <<>>, used |-> 0]
           ELSE LET rest == BatchFrom(n - 1, length, strength, k0 + g.used)
                IN  [ok |-> rest.ok,
                     value |-> IF rest.ok THEN <<g.value>> \o rest.value ELSE <<>>,
                     used |-> g.used + rest.used]

\* generate_multiple that drops a password equal to the one before it
generate_multiple_DropRepeat(count, length, strength, k0) ==
  LET b == BatchFrom(count, length, strength, k0)
      keep == {i \in DOMAIN b.value : i = 1 \/ b.value[i] # b.value[i - 1]}
  IN  [b EXCEPT !.value = IF keep = DOMAIN b.value THEN b.value
                          ELSE SubSeq(b.value, 1, Len(b.value) - 1)]

\* generate_multiple(count, length, strength): include_special,
\* exclude_ambiguous and readable are the defaults of generate_password
generate_multiple(count, length, strength, k0) ==
  BatchFrom(count, length, strength, k0)

(* ------------------ checker.py: constants ------------------------------ *)
\* PasswordChecker.LOWERCASE / UPPERCASE / DIGITS / SPECIAL (charset sizes)
LOWERCASE_SIZE == 26
UPPERCASE_SIZE == 26
DIGITS_SIZE == 10
SPECIAL_SIZE == 32

\* the character class of the regex of _has_special_chars / _calculate_entropy
\*   [!@#$%^&*()_+\-=\[\]{};:'",.<>?/\\|`~]
SpecialClass == {33, 64, 35, 36, 37, 94, 38, 42, 40, 41, 95, 43, 45, 61, 91,
                 93, 123, 125, 59, 58, 39, 34, 44, 46, 60, 62, 63, 47, 92,
                 124, 96, 126}

\* Non-ASCII code points the model classifies: E-acute (upper 201, lower
\* 233) and ARABIC-INDIC DIGIT THREE (1635)
NonAsciiUpper == {201}
NonAsciiLower == {233}
NonAsciiDigit == {1635}

\* str.isupper / str.islower / str.isdigit on one character
isupper(c) == c \in 65..90 \/ c \in NonAsciiUpper
islower(c) == c \in 97..122 \/ c \in NonAsciiLower
isdigit(c) == c \in 48..57 \/ c \in NonAsciiDigit

\* str.lower()
lower(s) == [i \in DOMAIN s |->
               IF s[i] \in 65..90 THEN s[i] + 32
               ELSE IF s[i] \in NonAsciiUpper THEN s[i] + 32 ELSE s[i]]

(* ------------------ string searching ----------------------------------- *)
\* pat is a sequence of character sets; it matches s at offset o (0-based)
MatchesAt(s, pat, o) == \A i \in 1..Len(pat) : s[o + i] \in pat[i]

\* re.search of a fixed-length pattern of character sets
Search(s, pat) == \E o \in 0..(Len(s) - Len(pat)) : MatchesAt(s, pat, o)

\* sub in s
Contains(s, sub) == \E o \in 0..(Len(s) - Len(sub)) :
                       \A i \in 1..Len(sub) : s[o + i] = sub[i]

\* str.replace(old, new): non-overlapping occurrences, left to right
RECURSIVE ReplaceFrom(_, _, _, _)
ReplaceFrom(s, old, new, i) ==
  IF i > Len(s) THEN <<>>
  ELSE IF i + Len(old) - 1 <= Len(s)
          /\ \A k \in 1..Len(old) : s[i + k - 1] = old[k]
       THEN new \o ReplaceFrom(s, old, new, i + Len(old))
       ELSE <<s[i]>> \o ReplaceFrom(s, old, new, i + 1)

\* a single character is replaced, or deleted, position by position
replace(s, old, new) ==
  IF ~Contains(s, old) THEN s
  ELSE IF Len(old) = 1 /\ Len(new) = 1
  THEN [i \in DOMAIN s |-> IF s[i] = old[1] THEN new[1] ELSE s[i]]
  ELSE IF Len(old) = 1 /\ Len(new) = 0
  THEN SelectSeq(s, LAMBDA c : c # old[1])
  ELSE ReplaceFrom(s, old, new, 1)

(* ------------------ checker.py: length and diversity ------------------- *)
_length_check(pw) == Len(pw) >= 12

\* _check_length whose comparisons are <= : 12 characters score 50
_check_length_Inclusive(pw) ==
  LET length == Len(pw)
  IN  IF length <= 6 THEN 0
      ELSE IF length <= 8 THEN 20
      ELSE IF length <= 12 THEN 50
      ELSE IF length <= 16 THEN 75
      ELSE 100

_check_length(pw) ==
  LET length == Len(pw)
  IN  IF length < 6 THEN 0
      ELSE IF length < 8 THEN 20
      ELSE IF length < 12 THEN 50
      ELSE IF length < 16 THEN 75
      ELSE 100

_has_uppercase(pw) == \E i \in DOMAIN pw : isupper(pw[i])
_has_lowercase(pw) == \E i \in DOMAIN pw : islower(pw[i])
\* the digit test anchored at the end of the password
_has_numbers_AtEnd(pw) == pw # <<>> /\ isdigit(pw[Len(pw)])

_has_numbers(pw) == \E i \in DOMAIN pw : isdigit(pw[i])
_has_special_chars(pw) == \E i \in DOMAIN pw : pw[i] \in SpecialClass

B2N(b) == IF b THEN 1 ELSE 0

\* the diversity score without the division by 4
_check_character_diversity_NoDivision(pw) ==
  LET diversity_count == B2N(_has_uppercase(pw)) + B2N(_has_lowercase(pw))
                         + B2N(_has_numbers(pw)) + B2N(_has_special_chars(pw))
  IN  diversity_count * 100

\* (diversity_count / 4) * 100
_check_character_diversity(pw) ==
  LET diversity_count == B2N(_has_uppercase(pw)) + B2N(_has_lowercase(pw))
                         + B2N(_has_numbers(pw)) + B2N(_has_special_chars(pw))
  IN  (diversity_count * 100) \div 4

(* ------------------ checker.py: pattern detection ---------------------- *)
\* the alternatives of the five regexes of _has_keyboard_pattern
KeyboardPatterns ==
  <<<<113, 119, 101, 114, 116>>, <<119, 101, 114, 116, 121>>,
    <<101, 114, 116, 121, 117>>, <<114, 116, 121, 117, 105>>,
    <<116, 121, 117, 105, 111>>, <<121, 117, 105, 111, 112>>,
    <<97, 115, 100, 102, 103>>, <<115, 100, 102, 103, 104>>,
    <<100, 102, 103, 104, 106>>, <<102, 103, 104, 106, 107>>,
    <<103, 104, 106, 107, 108>>,
    <<122, 120, 99, 118, 98>>, <<120, 99, 118, 98, 110>>,
    <<99, 118, 98, 110, 109>>,
    <<49, 50, 51, 52, 53>>, <<50, 51, 52, 53, 54>>, <<51, 52, 53, 54, 55>>,
    <<52, 53, 54, 55, 56>>, <<53, 54, 55, 56, 57>>, <<54, 55, 56, 57, 48>>,
    <<33, 64, 35, 36, 37>>, <<36, 37, 94, 38>>>>

_has_keyboard_pattern(pw) ==
  LET pwd_lower == lower(pw)
  IN  \E p \in DOMAIN KeyboardPatterns : Contains(pwd_lower, KeyboardPatterns[p])

\* three ascending consecutive code points
_has_sequential_chars(pw) ==
  \E i \in 1..(Len(pw) - 2) : pw[i + 1] = pw[i] + 1 /\ pw[i + 2] = pw[i + 1] + 1

\* some character occurs three or more times in the whole password
_has_repeated_chars(pw) == \E c \in Range(pw) : Count(pw, {c}) >= 3

\* the regexes of _is_common_pattern, each a sequence of character sets:
\* [Pp]ass(word)?  [Pp]\@ssw0rd  [Qq]werty  [Aa]dmin  [Ll]etme[Ii]n
\* [Ww]elcome  [Ss]ecure
CommonPatterns ==
  << <<{80, 112}, {97}, {115}, {115}>>,
     <<{80, 112}, {64}, {115}, {115}, {119}, {48}, {114}, {100}>>,
     <<{81, 113}, {119}, {101}, {114}, {116}, {121}>>,
     <<{65, 97}, {100}, {109}, {105}, {110}>>,
     <<{76, 108}, {101}, {116}, {109}, {101}, {73, 105}, {110}>>,
     <<{87, 119}, {101}, {108}, {99}, {111}, {109}, {101}>>,
     <<{83, 115}, {101}, {99}, {117}, {114}, {101}>> >>

_is_common_pattern(pw) ==
  \E p \in DOMAIN CommonPatterns : Search(pw, CommonPatterns[p])

_check_patterns(pw) ==
  LET score == 100 - (IF _has_keyboard_pattern(pw) THEN 25 ELSE 0)
                   - (IF _has_sequential_chars(pw) THEN 15 ELSE 0)
                   - (IF _has_repeated_chars(pw) THEN 10 ELSE 0)
                   - (IF _is_common_pattern(pw) THEN 20 ELSE 0)
  IN  Max(0, score)

(* ------------------ checker.py: dictionary check ----------------------- *)
\* leet_map of _normalize_leet_speak, in dict order: <<old, new>>
leet_map ==
  << <<<<64>>, <<97>>>>, <<<<52>>, <<97>>>>, <<<<94>>, <<97>>>>,
     <<<<51>>, <<101>>>>, <<<<8364>>, <<101>>>>,
     <<<<56>>, <<98>>>>,
     <<<<57>>, <<103>>>>,
     <<<<49>>, <<105>>>>, <<<<124>>, <<105>>>>, <<<<33>>, <<105>>>>,
     <<<<48>>, <<111>>>>, <<<<40, 41>>, <<111>>>>,
     <<<<53>>, <<115>>>>, <<<<36>>, <<115>>>>,
     <<<<55>>, <<116>>>>, <<<<43>>, <<116>>>>,
     <<<<50>>, <<122>>>>,
     <<<<54>>, <<103>>>>,
     <<<<46>>, <<>>>>, <<<<45>>, <<>>>>, <<<<95>>, <<>>>>, <<<<32>>, <<>>>> >>

\* the loop of _normalize_leet_speak over leet_map.items(), from entry k on
RECURSIVE NormalizeFrom(_, _)
NormalizeFrom(normalized, k) ==
  IF k > Len(leet_map) THEN normalized
  ELSE NormalizeFrom(replace(normalized, leet_map[k][1], leet_map[k][2]), k + 1)

_normalize_leet_speak(pw) == NormalizeFrom(pw, 1)

\* common_words of _check_dictionary
common_words ==
  << <<112, 97, 115, 115, 119, 111, 114, 100>>,               \* password
     <<97, 100, 109, 105, 110>>,                              \* admin
     <<117, 115, 101, 114>>,                                  \* user
     <<119, 101, 108, 99, 111, 109, 101>>,                    \* welcome
     <<108, 101, 116, 109, 101, 105, 110>>,                   \* letmein
     <<109, 111, 110, 107, 101, 121>>,                        \* monkey
     <<100, 114, 97, 103, 111, 110>>,                         \* dragon
     <<109, 97, 115, 116, 101, 114>>,                         \* master
     <<115, 104, 97, 100, 111, 119>>,                         \* shadow
     <<115, 117, 110, 115, 104, 105, 110, 101>>,              \* sunshine
     <<115, 116, 97, 114, 108, 105, 103, 104, 116>>,          \* starlight
     <<116, 114, 117, 115, 116, 110, 111, 49>>,               \* trustno1
     <<113, 119, 101, 114, 116, 121>>,                        \* qwerty
     <<97, 100, 109, 105, 110, 49, 50, 51>>,                  \* admin123
     <<112, 97, 115, 115, 49, 50, 51>>,                       \* pass123
     <<112, 97, 115, 115, 119, 111, 114, 100, 49, 50, 51>> >> \* password123

\* One row of the longest-common-subsequence table: prev is the row of the
\* previous character of a (non-decreasing), c the current character of a.
\* The cell of column j is the larger of prev[j] and, when c occurs in
\* b[1..j], 1 + the previous row's cell left of its last occurrence.
LcsRow(prev, c, b) ==
  [j \in 1..Len(b) |->
     LET K == {k \in 1..j : b[k] = c}
     IN  IF K = {} THEN prev[j]
         ELSE LET last == CHOOSE k \in K : \A m \in K : m <= k
              IN  Max(prev[j], (IF last = 1 THEN 0 ELSE prev[last - 1]) + 1)] \o <<>>

RECURSIVE LcsFrom(_, _, _, _)
LcsFrom(a, b, i, prev) ==
  IF i > Len(a) THEN (IF Len(b) = 0 THEN 0 ELSE prev[Len(b)])
  ELSE LcsFrom(a, b, i + 1, LcsRow(prev, a[i], b))

\* length of the longest common subsequence of a and b
Lcs(a, b) == LcsFrom(a, b, 1, [j \in 1..Len(b) |-> 0])

\* rapidfuzz.fuzz.token_set_ratio(a, b) on strings without whitespace (one
\* token each): 0 when either is empty, else the normalized Indel similarity
\* 100 * 2 * lcs / (len(a) + len(b)), which is 100 for equal strings.
\* The value is the fraction n / d.
token_set_ratio(a, b) ==
  IF Len(a) = 0 \/ Len(b) = 0 THEN [n |-> 0, d |-> 1]
  ELSE [n |-> 200 * Lcs(a, b), d |-> Len(a) + Len(b)]

\* similarity >= t for the fraction sim and the integer t
SimGeq(sim, t) == sim.n >= t * sim.d

Min(a, b) == IF a <= b THEN a ELSE b

\* token_set_ratio(a, b) >= t.  A common subsequence is no longer than the
\* shorter string, so the ratio is at most 200 * min / (len(a) + len(b)):
\* when that is below t the comparison is decided without the table.
SimilarityGeq(a, b, t) ==
  /\ 200 * Min(Len(a), Len(b)) >= t * (Len(a) + Len(b))
  /\ SimGeq(token_set_ratio(a, b), t)

\* max(lo, x) of fractions with the same positive denominator
FracMax(lo, x) == IF x.n >= lo * x.d THEN x ELSE [n |-> lo * x.d, d |-> x.d]

\* the first of the indices H at which a for loop over a sequence hits (the
\* iteration where it returns), or 0 when H is empty
FirstHit(H) == IF H = {} THEN 0 ELSE CHOOSE k \in H : \A m \in H : k <= m

\* _check_dictionary that tries the common words before the fuzzy match
_check_dictionary_WordsFirst(pw, dict) ==
  LET pwd_lower == lower(pw)
      normalized_pwd == _normalize_leet_speak(pwd_lower)
      members == Range(dict)
      fuzzy == FirstHit({k \in DOMAIN dict :
                           SimilarityGeq(normalized_pwd, dict[k], 85)})
      weak == FirstHit({k \in DOMAIN common_words :
                          SimilarityGeq(normalized_pwd, common_words[k], 80)})
  IN  IF pwd_lower \in members \/ normalized_pwd \in members
      THEN [n |-> 0, d |-> 1]
      ELSE IF weak # 0
      THEN LET sim == token_set_ratio(normalized_pwd, common_words[weak])
           IN  FracMax(10, [n |-> 520 * sim.d - 5 * sim.n, d |-> 2 * sim.d])
      ELSE IF fuzzy # 0
      THEN LET sim == token_set_ratio(normalized_pwd, dict[fuzzy])
           IN  FracMax(0, [n |-> 390 * sim.d - 4 * sim.n, d |-> sim.d])
      ELSE IF \E k \in DOMAIN common_words :
                 Len(common_words[k]) >= 4 /\ Contains(normalized_pwd, common_words[k])
      THEN [n |-> 25, d |-> 1]
      ELSE [n |-> 100, d |-> 1]

\* _check_dictionary: the score is a fraction n / d, d > 0
_check_dictionary(pw, dict) ==
  LET pwd_lower == lower(pw)
      normalized_pwd == _normalize_leet_speak(pwd_lower)
      members == Range(dict)
      fuzzy == FirstHit({k \in DOMAIN dict :
                           SimilarityGeq(normalized_pwd, dict[k], 85)})
      weak == FirstHit({k \in DOMAIN common_words :
                          SimilarityGeq(normalized_pwd, common_words[k], 80)})
  IN  IF pwd_lower \in members \/ normalized_pwd \in members
      THEN [n |-> 0, d |-> 1]
      ELSE IF fuzzy # 0
      THEN \* max(0, 50 - (similarity - 85) * 4)
           LET sim == token_set_ratio(normalized_pwd, dict[fuzzy])
           IN  FracMax(0, [n |-> 390 * sim.d - 4 * sim.n, d |-> sim.d])
      ELSE IF weak # 0
      THEN \* max(10, 60 - (similarity - 80) * 2.5)
           LET sim == token_set_ratio(normalized_pwd, common_words[weak])
           IN  FracMax(10, [n |-> 520 * sim.d - 5 * sim.n, d |-> 2 * sim.d])
      ELSE IF \E k \in DOMAIN common_words :
                 Len(common_words[k]) >= 4 /\ Contains(normalized_pwd, common_words[k])
      THEN [n |-> 25, d |-> 1]
      ELSE [n |-> 100, d |-> 1]

(* ------------------ checker.py: entropy -------------------------------- *)
\* math.log2(charset_size) in micro-bits (rounded down), for the sums of
\* class sizes that occur
Log2Micro(n) ==
  CASE n = 10 -> 3321928 [] n = 26 -> 4700439 [] n = 32 -> 5000000
    [] n = 36 -> 5169925 [] n = 42 -> 5392317 [] n = 52 -> 5700439
    [] n = 58 -> 5857980 [] n = 62 -> 5954196 [] n = 68 -> 6087462
    [] n = 84 -> 6392317 [] n = 94 -> 6554588
    [] n = 29 -> 4857980 [] n = 39 -> 5285402 [] n = 55 -> 5781359
    [] n = 65 -> 6022367 [] n = 81 -> 6339850 [] n = 91 -> 6507794
    [] n = 3 -> 1584962 [] n = 19 -> 4247927 [] n = 22 -> 4459431
    [] n = 45 -> 5491853 [] n = 48 -> 5584962 [] n = 74 -> 6209453

\* the detection without the regex of the special characters
DetectedCharset_NoSpecial(pw) ==
  (IF \E i \in DOMAIN pw : pw[i] \in 97..122 THEN LOWERCASE_SIZE ELSE 0)
  + (IF \E i \in DOMAIN pw : pw[i] \in 65..90 THEN UPPERCASE_SIZE ELSE 0)
  + (IF \E i \in DOMAIN pw : pw[i] \in 48..57 THEN DIGITS_SIZE ELSE 0)

\* the charset size _calculate_entropy detects with its ASCII regexes
DetectedCharset(pw) ==
  (IF \E i \in DOMAIN pw : pw[i] \in 97..122 THEN LOWERCASE_SIZE ELSE 0)
  + (IF \E i \in DOMAIN pw : pw[i] \in 65..90 THEN UPPERCASE_SIZE ELSE 0)
  + (IF \E i \in DOMAIN pw : pw[i] \in 48..57 THEN DIGITS_SIZE ELSE 0)
  + (IF \E i \in DOMAIN pw : pw[i] \in SpecialClass THEN SPECIAL_SIZE ELSE 0)

\* _calculate_entropy, in micro-bits
_calculate_entropy(pw) ==
  LET charset_size == DetectedCharset(pw)
  IN  IF charset_size = 0 THEN 0 ELSE Len(pw) * Log2Micro(charset_size)

(* ------------------ generator.py: entropy utilities -------------------- *)
\* PasswordGenerator.calculate_entropy, in micro-bits
calculate_entropy(password_length, charset_size) ==
  IF charset_size <= 1 \/ password_length <= 0 THEN 0
  ELSE password_length * Log2Micro(charset_size)

\* PasswordGenerator.get_charset_size: the two len(...) are taken of the
\* literals of the special catalog and of the ambiguous characters
get_charset_size(include_uppercase, include_lowercase, include_digits, include_special, exclude_ambiguous) ==
  LET size == (IF include_uppercase THEN 26 ELSE 0)
              + (IF include_lowercase THEN 26 ELSE 0)
              + (IF include_digits THEN 10 ELSE 0)
              + (IF include_special THEN Len(SPECIAL) ELSE 0)
  IN  IF exclude_ambiguous THEN size - Len(AMBIGUOUS) ELSE size

\* _entropy_to_score on micro-bits
_entropy_to_score(entropy) ==
  IF entropy < 30000000 THEN 10
  ELSE IF entropy < 50000000 THEN 50
  ELSE IF entropy < 70000000 THEN 75
  ELSE 100

(* ------------------ checker.py: time to crack -------------------------- *)
\* seconds = 2 ** entropy / 2 / GUESSES_PER_SECOND is below X exactly when
\* entropy < 1 + log2(10^9 * X); the thresholds are in micro-bits.  The
\* result is the phrase of the unit that is chosen, without the mantissa;
\* 2 ** entropy raises OverflowError from 1024 bits on.
_calculate_time_to_crack(entropy) ==
  IF entropy >= 1024000000 THEN "OverflowError"
  ELSE IF entropy < 30897353 THEN "Less than 1 second"
  ELSE IF entropy < 36804244 THEN "seconds"
  ELSE IF entropy < 42711135 THEN "minutes"
  ELSE IF entropy < 47296097 THEN "hours"
  ELSE IF entropy < 55807850 THEN "days"
  ELSE IF entropy <= 75739417 THEN "years"
  ELSE "million years"

(* ------------------ checker.py: feedback ------------------------------- *)
\* the list after the conditional append of msg
AppendIf(list, cond, msg) == IF cond THEN Append(list, msg) ELSE list

\* _generate_feedback without the suggestion of the keyboard pattern
_generate_feedback_PatternUnpaired(pw, length_score, diversity_score, pattern_score, dictionary_score) ==
  LET dict100 == dictionary_score.n = 100 * dictionary_score.d
      p1 == IF Len(pw) >= 16 THEN <<"Excellent length (16+ characters)">>
            ELSE IF Len(pw) >= 12 THEN <<"Good length (12+ characters)">>
            ELSE <<>>
      p2 == IF diversity_score = 100
            THEN Append(p1, "Excellent character diversity (all types present)")
            ELSE IF diversity_score >= 75 THEN Append(p1, "Good character variety")
            ELSE p1
      p3 == AppendIf(p2, pattern_score = 100, "No predictable patterns detected")
      positive == AppendIf(p3, dict100, "Not a common password")
      n1 == AppendIf(<<>>, Len(pw) < 12, "Password too short (use 12+ characters)")
      s1 == AppendIf(<<>>, Len(pw) < 12,
                     "Increase password length to at least 12 characters")
      n2 == AppendIf(n1, ~_has_uppercase(pw), "Missing uppercase letters")
      s2 == AppendIf(s1, ~_has_uppercase(pw), "Add uppercase letters (A-Z)")
      n3 == AppendIf(n2, ~_has_lowercase(pw), "Missing lowercase letters")
      s3 == AppendIf(s2, ~_has_lowercase(pw), "Add lowercase letters (a-z)")
      n4 == AppendIf(n3, ~_has_numbers(pw), "Missing numbers")
      s4 == AppendIf(s3, ~_has_numbers(pw), "Add numbers (0-9)")
      n5 == AppendIf(n4, ~_has_special_chars(pw), "Missing special characters")
      s5 == AppendIf(s4, ~_has_special_chars(pw), "Add special characters (!@#$%^&*)")
      n6 == AppendIf(n5, _has_keyboard_pattern(pw), "Contains keyboard walk pattern")
      s6 == s5
      negative == AppendIf(n6, ~dict100, "Password contains common words")
      s7 == AppendIf(s6, ~dict100, "Use random, uncommon words or phrases")
      suggestions == AppendIf(s7, Len(positive) = 0,
                       "Consider using a password generator for a strong password")
  IN  [positive |-> positive, negative |-> negative, suggestions |-> suggestions]

\* _generate_feedback; dictionary_score is a fraction
_generate_feedback(pw, length_score, diversity_score, pattern_score, dictionary_score) ==
  LET dict100 == dictionary_score.n = 100 * dictionary_score.d
      p1 == IF Len(pw) >= 16 THEN <<"Excellent length (16+ characters)">>
            ELSE IF Len(pw) >= 12 THEN <<"Good length (12+ characters)">>
            ELSE <<>>
      p2 == IF diversity_score = 100
            THEN Append(p1, "Excellent character diversity (all types present)")
            ELSE IF diversity_score >= 75 THEN Append(p1, "Good character variety")
            ELSE p1
      p3 == AppendIf(p2, pattern_score = 100, "No predictable patterns detected")
      positive == AppendIf(p3, dict100, "Not a common password")
      n1 == AppendIf(<<>>, Len(pw) < 12, "Password too short (use 12+ characters)")
      s1 == AppendIf(<<>>, Len(pw) < 12,
                     "Increase password length to at least 12 characters")
      n2 == AppendIf(n1, ~_has_uppercase(pw), "Missing uppercase letters")
      s2 == AppendIf(s1, ~_has_uppercase(pw), "Add uppercase letters (A-Z)")
      n3 == AppendIf(n2, ~_has_lowercase(pw), "Missing lowercase letters")
      s3 == AppendIf(s2, ~_has_lowercase(pw), "Add lowercase letters (a-z)")
      n4 == AppendIf(n3, ~_has_numbers(pw), "Missing numbers")
      s4 == AppendIf(s3, ~_has_numbers(pw), "Add numbers (0-9)")
      n5 == AppendIf(n4, ~_has_special_chars(pw), "Missing special characters")
      s5 == AppendIf(s4, ~_has_special_chars(pw), "Add special characters (!@#$%^&*)")
      n6 == AppendIf(n5, _has_keyboard_pattern(pw), "Contains keyboard walk pattern")
      s6 == AppendIf(s5, _has_keyboard_pattern(pw),
                     "Avoid keyboard patterns like qwerty or 12345")
      negative == AppendIf(n6, ~dict100, "Password contains common words")
      s7 == AppendIf(s6, ~dict100, "Use random, uncommon words or phrases")
      suggestions == AppendIf(s7, Len(positive) = 0,
                       "Consider using a password generator for a strong password")
  IN  [positive |-> positive, negative |-> negative, suggestions |-> suggestions]

(* ------------------ checker.py: the verdict ---------------------------- *)
\* the keys with numbers and special_chars exchanged
CriteriaNames_Swapped == <<"length", "uppercase", "lowercase", "special_chars", "numbers",
                           "no_dictionary_words", "no_keyboard_patterns",
                           "no_sequential_chars">>

\* the keys of the criteria dict, in insertion order
CriteriaNames == <<"length", "uppercase", "lowercase", "numbers", "special_chars",
                   "no_dictionary_words", "no_keyboard_patterns",
                   "no_sequential_chars">>

\* the string "***"
MASK == <<42, 42, 42>>

Status(b) == IF b THEN "PASS" ELSE "FAIL"

\* Python round() of the non-negative fraction n / d: half to even
RoundHalfEven(n, d) ==
  LET q == n \div d
      r == n % d
  IN  IF 2 * r < d THEN q
      ELSE IF 2 * r > d THEN q + 1
      ELSE IF q % 2 = 0 THEN q ELSE q + 1

\* the weighted overall score of check_password as a fraction:
\* length*0.25 + diversity*0.25 + pattern*0.20 + dictionary*0.20 + entropy*0.10
OverallScore(length_score, diversity_score, pattern_score, dictionary_score, entropy_score) ==
  [n |-> (25 * length_score + 25 * diversity_score + 20 * pattern_score
          + 10 * entropy_score) * dictionary_score.d + 20 * dictionary_score.n,
   d |-> 100 * dictionary_score.d]

\* the strength level of an overall score
StrengthOf(overall_score) ==
  IF overall_score.n >= 80 * overall_score.d THEN "STRONG"
  ELSE IF overall_score.n >= 60 * overall_score.d THEN "MEDIUM"
  ELSE IF overall_score.n >= 40 * overall_score.d THEN "WEAK"
  ELSE "VERY WEAK"

\* _weak_result whose criteria are all reported PASS
_weak_result_AllPass(reason) ==
  [kind |-> "verdict",
   password |-> MASK,
   overall_strength |-> "VERY WEAK",
   score |-> 0,
   entropy_bits |-> 0,
   time_to_crack |-> "Less than 1 second",
   feedback |-> [positive |-> <<>>, negative |-> <<reason>>,
                 suggestions |-> <<"Create a proper password with minimum 12 characters">>],
   criteria |-> [k \in 1..Len(CriteriaNames) |-> <<CriteriaNames[k], "PASS">>]]

_weak_result(reason) ==
  [kind |-> "verdict",
   password |-> MASK,
   overall_strength |-> "VERY WEAK",
   score |-> 0,
   entropy_bits |-> 0,
   time_to_crack |-> "Less than 1 second",
   feedback |-> [positive |-> <<>>, negative |-> <<reason>>,
                 suggestions |-> <<"Create a proper password with minimum 12 characters">>],
   criteria |-> [k \in 1..Len(CriteriaNames) |-> <<CriteriaNames[k], "FAIL">>]]

\* check_password(pw) of an engine whose dictionary iterates as dict;
\* entropy_bits is in hundredths of a bit
check_password(pw, dict) ==
  IF Len(pw) = 0 THEN _weak_result("Password cannot be empty")
  ELSE
  LET length_score == _check_length(pw)
      diversity_score == _check_character_diversity(pw)
      entropy == _calculate_entropy(pw)
      pattern_score == _check_patterns(pw)
      dictionary_score == _check_dictionary(pw, dict)
      overall_score == OverallScore(length_score, diversity_score, pattern_score,
                                    dictionary_score, _entropy_to_score(entropy))
      time_to_crack == _calculate_time_to_crack(entropy)
  IN  IF time_to_crack = "OverflowError" THEN [kind |-> "OverflowError"]
      ELSE
      [kind |-> "verdict",
       password |-> IF Len(pw) > 0 THEN MASK ELSE <<>>,
       overall_strength |-> StrengthOf(overall_score),
       score |-> RoundHalfEven(overall_score.n, overall_score.d),
       entropy_bits |-> RoundHalfEven(entropy, 10000),
       time_to_crack |-> time_to_crack,
       feedback |-> _generate_feedback(pw, length_score, diversity_score,
                                       pattern_score, dictionary_score),
       criteria |->
         << <<"length", Status(_length_check(pw))>>,
            <<"uppercase", Status(_has_uppercase(pw))>>,
            <<"lowercase", Status(_has_lowercase(pw))>>,
            <<"numbers", Status(_has_numbers(pw))>>,
            <<"special_chars", Status(_has_special_chars(pw))>>,
            <<"no_dictionary_words",
              Status(dictionary_score.n > 50 * dictionary_score.d)>>,
            <<"no_keyboard_patterns", Status(pattern_score > 70)>>,
            <<"no_sequential_chars", Status(~_has_sequential_chars(pw))>> >>]

\* check_password that adds the checked password to the dictionary
EngineAfterCheck_Remember(pw, dict) ==
  IF lower(pw) \in Range(dict) THEN dict ELSE Append(dict, lower(pw))

\* self.common_passwords when check_password(pw) returns: the method and
\* its helpers only read the set (the membership tests and the iteration of
\* _check_dictionary), nothing assigns to self
EngineAfterCheck(pw, dict) == dict

(* ------------------ generator: state machine --------------------------- *)
NoResult == [kind |-> "none", value |-> <<>>]

Policies == [length : (MIN_LENGTH - 1)..MaxLen, strength : PasswordStrength,
             include_special : BOOLEAN, exclude_ambiguous : BOOLEAN,
             readable : BOOLEAN]

NoVerdict == [kind |-> "none"]

\* no utility call is in progress
NoBatch == [kind |-> "none", value |-> <<>>]

\* the callers of a shared PasswordChecker
Callers == 1..MaxCallers

ShuffleIdle ==
  /\ list_arg = <<>>
  /\ list_ret = <<>>

BatchIdle ==
  /\ batch_count = 0
  /\ batch = NoBatch

SharedIdle ==
  /\ pc = [c \in Callers |-> "idle"]
  /\ arg = [c \in Callers |-> <<>>]
  /\ ret = [c \in Callers |-> NoVerdict]

NoDiversity == [kind |-> "none"]

DiversityIdle ==
  /\ suffix = <<>>
  /\ diversity = NoDiversity

NoUtility == [kind |-> "none"]

\* the flags of get_charset_size
Flags == [include_uppercase : BOOLEAN, include_lowercase : BOOLEAN,
          include_digits : BOOLEAN, include_special : BOOLEAN,
          exclude_ambiguous : BOOLEAN]

\* the defaults of get_charset_size
DefaultFlags == [include_uppercase |-> TRUE, include_lowercase |-> TRUE,
                 include_digits |-> TRUE, include_special |-> TRUE,
                 exclude_ambiguous |-> FALSE]

EntropyIdle ==
  /\ size_flags = DefaultFlags
  /\ entropy_len = 0
  /\ utility = NoUtility

\* a dictionary file that does not exist
MissingSource == [exists |-> FALSE, lines |-> <<>>]

\* the engine's dictionary is given as it is, no file is read
LoadIdle ==
  /\ source = MissingSource
  /\ engine = [status |-> "given", warning |-> FALSE]

PermuteIdle ==
  /\ tried = 0
  /\ outputs = {}

NoText == [kind |-> "none"]

LeetIdle ==
  /\ leet_in = <<>>
  /\ leet_out = NoText

MoreIdle == LoadIdle /\ PermuteIdle /\ LeetIdle

UtilIdle ==
  /\ ShuffleIdle /\ BatchIdle /\ SharedIdle /\ DiversityIdle /\ EntropyIdle
  /\ MoreIdle

Init ==
  /\ policy \in Policies
  /\ rng \in Tapes
  /\ drawn = 0
  /\ calls = 0
  /\ result = NoResult
  /\ common_passwords = <<>>
  /\ password = <<>>
  /\ verdict = NoVerdict
  /\ UtilIdle

\* one call generate_password(**policy) against the current tape
GeneratePassword ==
  /\ calls < MaxCalls
  /\ LET r == generate_password(policy.length, policy.strength,
                                policy.include_special, policy.exclude_ambiguous,
                                policy.readable, drawn)
     IN  /\ result' = IF r.ok THEN [kind |-> "password", value |-> r.value]
                      ELSE [kind |-> "ValueError", value |-> <<>>]
         /\ drawn' = drawn + r.used
  /\ calls' = calls + 1
  /\ UNCHANGED <<policy, rng, common_passwords, password, verdict>>
  /\ UNCHANGED utilVars

Next == GeneratePassword

Spec == Init /\ [][Next]_vars

(* ------------------ checker: state machine ----------------------------- *)
MaxFrags == 3   \* an input password is at most this many fragments

\* what the caller's input is assembled from
Fragments ==
  { <<122, 120, 99, 118, 98>>,                   \* zxcvb
    <<49, 50, 51, 52, 53>>,                      \* 12345
    <<88, 107, 109, 81, 122, 119, 66>>,          \* XkmQzwB
    <<112, 97, 115, 115, 119, 111, 114, 100>>,   \* password
    <<112, 64, 115, 115, 119, 48, 114, 100>>,    \* p@ssw0rd
    <<33>>,                                      \* !
    <<57>>,                                      \* 9
    <<201, 1635>> }                              \* E-acute, Arabic-Indic 3

RECURSIVE Concats(_)
Concats(k) ==
  IF k = 0 THEN {<<>>}
  ELSE LET shorter == Concats(k - 1)
       IN  shorter \cup {p \o f : p \in shorter, f \in Fragments}

Passwords == Concats(MaxFrags)

\* self.common_passwords after construction, as the sequence in which the
\* set iterates: the empty set of a missing file, or {password, password1}
\* in either order
Engines ==
  LET pw0 == <<112, 97, 115, 115, 119, 111, 114, 100>>
      pw1 == <<112, 97, 115, 115, 119, 111, 114, 100, 49>>
  IN  {<<>>, <<pw0, pw1>>, <<pw1, pw0>>}

InitCheck ==
  /\ common_passwords \in Engines
  /\ password \in Passwords
  /\ verdict = NoVerdict
  /\ policy = [length |-> MIN_LENGTH, strength |-> "STRONG", include_special |-> TRUE,
               exclude_ambiguous |-> TRUE, readable |-> FALSE]
  /\ rng = [i \in 1..TapeLen |-> 0]
  /\ drawn = 0
  /\ calls = 0
  /\ result = NoResult
  /\ UtilIdle

\* one call self.check_password(password)
CheckPassword ==
  /\ verdict' = check_password(password, common_passwords)
  /\ UNCHANGED <<policy, rng, drawn, calls, result, common_passwords, password>>
  /\ UNCHANGED utilVars

NextCheck == CheckPassword

SpecCheck == InitCheck /\ [][NextCheck]_vars

(* ------------------ _shuffle_list: state machine ------------------------ *)
\* the characters of the lists handed to _shuffle_list: a, b, 1
ShuffleAlphabet == {97, 98, 49}

\* the lists of at most MaxItems characters, repeated characters included
Lists == UNION {[1..n -> ShuffleAlphabet] : n \in 0..MaxItems}

\* the generator and the checker before any call
DefaultPolicy == [length |-> MIN_LENGTH, strength |-> "STRONG", include_special |-> TRUE,
                  exclude_ambiguous |-> TRUE, readable |-> FALSE]

\* the checker before any call, without a dictionary file
CheckIdle ==
  /\ common_passwords = <<>>
  /\ password = <<>>
  /\ verdict = NoVerdict

InitShuffle ==
  /\ list_arg \in Lists
  /\ list_ret = <<>>
  /\ rng \in Tapes
  /\ drawn = 0
  /\ calls = 0
  /\ policy = DefaultPolicy
  /\ result = NoResult
  /\ CheckIdle
  /\ BatchIdle
  /\ SharedIdle
  /\ DiversityIdle
  /\ EntropyIdle
  /\ MoreIdle

\* one call self._shuffle_list(list_arg): the swaps are made in items.copy(),
\* which is returned; the caller's list is not written
ShuffleList ==
  /\ calls < MaxCalls
  /\ list_ret' = _shuffle_list(list_arg, drawn)
  /\ drawn' = drawn + Max(Len(list_arg) - 1, 0)
  /\ calls' = calls + 1
  /\ UNCHANGED <<list_arg, policy, rng, result>>
  /\ UNCHANGED <<checkVars, batchVars, sharedVars, diversityVars, entropyVars>>
  /\ UNCHANGED moreVars

NextShuffle == ShuffleList

SpecShuffle == InitShuffle /\ [][NextShuffle]_vars

(* ------------------ generate_multiple: state machine -------------------- *)
\* the lengths handed to generate_multiple: below the floor, the floor, and
\* the largest length
BatchLengths == {MIN_LENGTH - 1, MIN_LENGTH, MaxLen}

\* the policies generate_multiple can ask for: a length and a tier, the
\* three flags at their defaults
BatchPolicies == {pol \in Policies : /\ pol.length \in BatchLengths
                                     /\ pol.include_special
                                     /\ pol.exclude_ambiguous
                                     /\ ~pol.readable}

InitBatch ==
  /\ batch_count \in 0..MaxCount
  /\ policy \in BatchPolicies
  /\ rng \in Tapes
  /\ batch = NoBatch
  /\ drawn = 0
  /\ calls = 0
  /\ result = NoResult
  /\ CheckIdle
  /\ ShuffleIdle
  /\ SharedIdle
  /\ DiversityIdle
  /\ EntropyIdle
  /\ MoreIdle

\* one call generate_multiple(batch_count, policy.length, policy.strength)
GenerateMultiple ==
  /\ calls < MaxCalls
  /\ LET r == generate_multiple(batch_count, policy.length, policy.strength, drawn)
     IN  /\ batch' = IF r.ok THEN [kind |-> "list", value |-> r.value]
                     ELSE [kind |-> "ValueError", value |-> <<>>]
         /\ drawn' = drawn + r.used
  /\ calls' = calls + 1
  /\ UNCHANGED <<batch_count, policy, rng, result>>
  /\ UNCHANGED <<checkVars, shuffleVars, sharedVars, diversityVars, entropyVars>>
  /\ UNCHANGED moreVars

NextBatch == GenerateMultiple

SpecBatch == InitBatch /\ [][NextBatch]_vars

(* ------------------ shared engine: state machine ------------------------ *)
\* the passwords the callers of the shared engine check: the empty one,
\* password, p@ssw0rd!, XkmQzwB12345
SharedInputs ==
  { <<>>,
    <<112, 97, 115, 115, 119, 111, 114, 100>>,
    <<112, 64, 115, 115, 119, 48, 114, 100, 33>>,
    <<88, 107, 109, 81, 122, 119, 66, 49, 50, 51, 52, 53>> }

InitShared ==
  /\ common_passwords \in Engines
  /\ password = <<>>
  /\ verdict = NoVerdict
  /\ SharedIdle
  /\ policy = DefaultPolicy
  /\ rng = [i \in 1..TapeLen |-> 0]
  /\ drawn = 0
  /\ calls = 0
  /\ result = NoResult
  /\ ShuffleIdle
  /\ BatchIdle
  /\ DiversityIdle
  /\ EntropyIdle
  /\ MoreIdle

\* caller c enters checker.check_password(pw)
Call(c) ==
  /\ pc[c] = "idle"
  /\ \E pw \in SharedInputs : arg' = [arg EXCEPT ![c] = pw]
  /\ pc' = [pc EXCEPT ![c] = "running"]
  /\ UNCHANGED <<ret, genVars, checkVars, shuffleVars, batchVars, diversityVars,
                 entropyVars>>
  /\ UNCHANGED moreVars

\* the call of caller c runs against the shared engine and returns
Return(c) ==
  /\ pc[c] = "running"
  /\ ret' = [ret EXCEPT ![c] = check_password(arg[c], common_passwords)]
  /\ common_passwords' = EngineAfterCheck(arg[c], common_passwords)
  /\ pc' = [pc EXCEPT ![c] = "done"]
  /\ UNCHANGED <<arg, password, verdict, genVars, shuffleVars, batchVars, diversityVars,
                 entropyVars>>
  /\ UNCHANGED moreVars

NextShared == \E c \in Callers : Call(c) \/ Return(c)

SpecShared == InitShared /\ [][NextShared]_vars

(* ------------------ diversity: state machine ---------------------------- *)
\* the strings appended to a password: nothing, one character of a class
\* (A, a, 1, !), one of each class (Aa1!), and the non-ASCII pair
Suffixes ==
  { <<>>, <<65>>, <<97>>, <<49>>, <<33>>, <<65, 97, 49, 33>>, <<201, 1635>> }

\* the generator before any call
GenIdle ==
  /\ policy = DefaultPolicy
  /\ rng = [i \in 1..TapeLen |-> 0]
  /\ drawn = 0
  /\ calls = 0
  /\ result = NoResult

InitDiversity ==
  /\ password \in Passwords
  /\ suffix \in Suffixes
  /\ diversity = NoDiversity
  /\ common_passwords = <<>>
  /\ verdict = NoVerdict
  /\ GenIdle
  /\ ShuffleIdle
  /\ BatchIdle
  /\ SharedIdle
  /\ EntropyIdle
  /\ MoreIdle

\* _check_character_diversity(password) and
\* _check_character_diversity(password + suffix)
CheckDiversity ==
  /\ diversity = NoDiversity
  /\ diversity' = [kind |-> "scores",
                   before |-> _check_character_diversity(password),
                   after |-> _check_character_diversity(password \o suffix)]
  /\ UNCHANGED <<suffix, genVars, checkVars, shuffleVars, batchVars, sharedVars,
                 entropyVars>>
  /\ UNCHANGED moreVars

NextDiversity == CheckDiversity

SpecDiversity == InitDiversity /\ [][NextDiversity]_vars

(* ------------------ entropy utilities: state machine -------------------- *)
InitUtility ==
  /\ size_flags \in Flags
  /\ entropy_len \in 0..MaxLen
  /\ utility = NoUtility
  /\ GenIdle
  /\ CheckIdle
  /\ ShuffleIdle
  /\ BatchIdle
  /\ SharedIdle
  /\ DiversityIdle
  /\ MoreIdle

\* charset_size = get_charset_size(**size_flags) followed by
\* calculate_entropy(entropy_len, charset_size)
CharsetEntropy ==
  /\ utility = NoUtility
  /\ LET charset_size == get_charset_size(size_flags.include_uppercase,
                                          size_flags.include_lowercase,
                                          size_flags.include_digits,
                                          size_flags.include_special,
                                          size_flags.exclude_ambiguous)
     IN  utility' = [kind |-> "sizes", size |-> charset_size,
                     entropy |-> calculate_entropy(entropy_len, charset_size)]
  /\ UNCHANGED <<size_flags, entropy_len, genVars, checkVars, shuffleVars, batchVars,
                 sharedVars, diversityVars>>
  /\ UNCHANGED moreVars

NextUtility == CharsetEntropy

SpecUtility == InitUtility /\ [][NextUtility]_vars

(* ------------------ long passwords: state machine ----------------------- *)
\* what a long password repeats: a, Aa1!, and E-acute
Units == { <<97>>, <<65, 97, 49, 33>>, <<201>> }

\* the first n characters of unit repeated without end
Cycle(unit, n) == [i \in 1..n |-> unit[((i - 1) % Len(unit)) + 1]]

LongPasswords == {Cycle(unit, n) : unit \in Units, n \in 1..MaxLong}

InitLong ==
  /\ common_passwords \in Engines
  /\ password \in LongPasswords
  /\ verdict = NoVerdict
  /\ GenIdle
  /\ UtilIdle

\* the calls of check_password on the long passwords
SpecLong == InitLong /\ [][NextCheck]_vars

(* ------------------ construction: state machine ------------------------ *)
\* the characters str.strip() removes at both ends, of those in the files
Whitespace == {9, 10, 13, 32}

\* str.strip()
strip(s) ==
  LET kept == {i \in DOMAIN s : s[i] \notin Whitespace}
  IN  IF kept = {} THEN <<>>
      ELSE SubSeq(s, CHOOSE i \in kept : \A m \in kept : i <= m,
                     CHOOSE i \in kept : \A m \in kept : m <= i)

\* _load_common_passwords that lets FileNotFoundError through
_load_common_passwords_Raises(filepath) ==
  IF ~filepath.exists
  THEN [kind |-> "FileNotFoundError", value |-> {}, warning |-> FALSE]
  ELSE [kind |-> "set", warning |-> FALSE,
        value |-> {lower(strip(filepath.lines[i])) : i \in DOMAIN filepath.lines}]

\* _load_common_passwords: the set of the stripped, lowercased lines, or
\* the empty set and a printed warning when the file is not found
_load_common_passwords(filepath) ==
  IF ~filepath.exists
  THEN [kind |-> "set", value |-> {}, warning |-> TRUE]
  ELSE [kind |-> "set", warning |-> FALSE,
        value |-> {lower(strip(filepath.lines[i])) : i \in DOMAIN filepath.lines}]

\* the sequences in which a set can iterate
Orderings(S) ==
  {o \in [1..Cardinality(S) -> S] : \A i, j \in DOMAIN o : o[i] = o[j] => i = j}

\* the lines of the dictionary files: "password\n", "Password1 \n",
\* " PASSWORD\n", "\n"
FileLines ==
  { <<112, 97, 115, 115, 119, 111, 114, 100, 10>>,
    <<80, 97, 115, 115, 119, 111, 114, 100, 49, 32, 10>>,
    <<32, 80, 65, 83, 83, 87, 79, 82, 68, 10>>,
    <<10>> }

MaxLines == 2   \* a dictionary file has at most this many lines

\* the files behind common_passwords_file: missing, or of up to MaxLines lines
Sources ==
  {MissingSource}
    \cup {[exists |-> TRUE, lines |-> l] :
            l \in UNION {[1..n -> FileLines] : n \in 0..MaxLines}}

\* the passwords checked by the constructed engine: a fragment, or empty
LoadInputs == Concats(1)

InitLoad ==
  /\ source \in Sources
  /\ engine = [status |-> "pending", warning |-> FALSE]
  /\ common_passwords = <<>>
  /\ password \in LoadInputs
  /\ verdict = NoVerdict
  /\ GenIdle
  /\ ShuffleIdle /\ BatchIdle /\ SharedIdle /\ DiversityIdle /\ EntropyIdle
  /\ PermuteIdle /\ LeetIdle

\* PasswordChecker(common_passwords_file)
Construct ==
  /\ engine.status = "pending"
  /\ LET loaded == _load_common_passwords(source)
     IN  IF loaded.kind = "set"
         THEN /\ engine' = [status |-> "constructed", warning |-> loaded.warning]
              /\ common_passwords' \in Orderings(loaded.value)
         ELSE /\ engine' = [status |-> loaded.kind, warning |-> loaded.warning]
              /\ UNCHANGED common_passwords
  /\ UNCHANGED <<genVars, password, verdict, source>>
  /\ UNCHANGED <<shuffleVars, batchVars, sharedVars, diversityVars, entropyVars,
                 permuteVars, leetVars>>

\* one call check_password(pw) of the constructed engine
CheckLoaded ==
  /\ engine.status = "constructed"
  /\ verdict' = check_password(password, common_passwords)
  /\ UNCHANGED <<genVars, common_passwords, password, source, engine>>
  /\ UNCHANGED <<shuffleVars, batchVars, sharedVars, diversityVars, entropyVars,
                 permuteVars, leetVars>>

NextLoad == Construct \/ CheckLoaded

SpecLoad == InitLoad /\ [][NextLoad]_vars

(* ------------------ every draw of _shuffle_list: state machine --------- *)
\* the characters of the lists of distinct items: a, b, 1, !
PermuteAlphabet == {97, 98, 49, 33}

\* the longest list whose n - 1 draws are all on the tape, and are free
MaxDistinct ==
  LET m == IF TapeLen + 1 < MaxItems THEN TapeLen + 1 ELSE MaxItems
  IN  IF m < Cardinality(PermuteAlphabet) THEN m ELSE Cardinality(PermuteAlphabet)

\* the lists of distinct items
DistinctLists ==
  {l \in UNION {[1..n -> PermuteAlphabet] : n \in 0..MaxDistinct} :
     \A i, j \in DOMAIN l : l[i] = l[j] => i = j}

RECURSIVE Factorial(_)
Factorial(n) == IF n <= 1 THEN 1 ELSE n * Factorial(n - 1)

\* the number of draw sequences of a list of n items that precede a change
\* of draw k: (n) * (n - 1) * ... for the draws before k
RECURSIVE Weight(_, _)
Weight(n, k) == IF k <= 1 THEN 1 ELSE Weight(n, k - 1) * (n - k + 2)

\* the c-th sequence of swap indices of a list of n items as a tape: draw k
\* is the j of i = n - k, a value in 0..i
DrawsOf(c, n) ==
  [k \in 1..TapeLen |->
     IF k <= n - 1 THEN (c \div Weight(n, k)) % (n - k + 1) ELSE 0]

InitPermute ==
  /\ list_arg \in DistinctLists
  /\ list_ret = <<>>
  /\ rng = DrawsOf(0, Len(list_arg))
  /\ tried = 0
  /\ outputs = {}
  /\ drawn = 0
  /\ calls = 0
  /\ policy = DefaultPolicy
  /\ result = NoResult
  /\ CheckIdle
  /\ BatchIdle /\ SharedIdle /\ DiversityIdle /\ EntropyIdle
  /\ LoadIdle /\ LeetIdle

\* one call self._shuffle_list(list_arg) under the next sequence of swap
\* indices: the source then delivers the sequence after it
ShuffleUnderDraws ==
  /\ tried < Factorial(Len(list_arg))
  /\ outputs' = outputs \cup {_shuffle_list(list_arg, 0)}
  /\ tried' = tried + 1
  /\ rng' = DrawsOf((tried + 1) % Factorial(Len(list_arg)), Len(list_arg))
  /\ UNCHANGED <<list_arg, list_ret, policy, drawn, calls, result>>
  /\ UNCHANGED <<checkVars, batchVars, sharedVars, diversityVars, entropyVars,
                 loadVars, leetVars>>

NextPermute == ShuffleUnderDraws

SpecPermute == InitPermute /\ [][NextPermute]_vars

(* ------------------ _normalize_leet_speak: state machine --------------- *)
MaxLeet == 3   \* a string handed to _normalize_leet_speak is at most this long

\* the characters of the strings: ( ) @ 1 . a A and the euro sign
LeetAlphabet == {40, 41, 64, 49, 46, 97, 65, 8364}

LeetInputs == UNION {[1..n -> LeetAlphabet] : n \in 0..MaxLeet}

InitLeet ==
  /\ leet_in \in LeetInputs
  /\ leet_out = NoText
  /\ GenIdle
  /\ CheckIdle
  /\ ShuffleIdle /\ BatchIdle /\ SharedIdle /\ DiversityIdle /\ EntropyIdle
  /\ LoadIdle /\ PermuteIdle

\* one call self._normalize_leet_speak(leet_in)
NormalizeLeet ==
  /\ leet_out = NoText
  /\ leet_out' = [kind |-> "text", value |-> _normalize_leet_speak(leet_in)]
  /\ UNCHANGED <<leet_in, genVars, checkVars>>
  /\ UNCHANGED <<shuffleVars, batchVars, sharedVars, diversityVars, entropyVars,
                 loadVars, permuteVars>>

NextLeet == NormalizeLeet

SpecLeet == InitLeet /\ [][NextLeet]_vars

(* ====================== properties of the generator ==================== *)
\* the classes of the generator as sets
Uppers == Range(UPPERCASE)
Lowers == Range(LOWERCASE)
Digits == Range(DIGITS)
Specials == Range(SPECIAL)
Ambiguous == Range(AMBIGUOUS)

Generated == result.kind = "password"

\* the tier requires a special character
NeedsSpecial ==
  \/ policy.strength \in {"STRONG", "VERY_STRONG"}
  \/ policy.strength = "MEDIUM" /\ policy.include_special

\* result.value holds at least k characters of every class the tier requires
ClassGuarantee(k) ==
  /\ Count(result.value, Uppers) >= k
  /\ Count(result.value, Lowers) >= k
  /\ Count(result.value, Digits) >= k
  /\ NeedsSpecial => Count(result.value, Specials) >= k

\* C1: for every policy with length L >= 8, whatever the tier and the flags,
\* generate_password returns a string of exactly L characters.
C1_ExactLength ==
  (calls > 0 /\ policy.length >= MIN_LENGTH)
    => (Generated /\ Len(result.value) = policy.length)

\* a guaranteed tier has returned a password longer than its required part
C1_Witness ==
  /\ Generated
  /\ ~policy.readable
  /\ policy.strength = "VERY_STRONG"
  /\ policy.length > 8
  /\ Len(result.value) = policy.length

\* C2 as stated: for every policy with length >= 8, readable included, a
\* MEDIUM or STRONG password holds at least one, a VERY_STRONG password at
\* least two characters of every required class.
C2_AsStated ==
  Generated =>
    /\ policy.strength \in {"MEDIUM", "STRONG"} => ClassGuarantee(1)
    /\ policy.strength = "VERY_STRONG" => ClassGuarantee(2)

\* C2 amended: the class guarantee of MEDIUM / STRONG (one of each required
\* class) and VERY_STRONG (two of each) holds for every policy with length
\* >= 8 whose readable flag is not set.
C2_ClassGuarantee ==
  (Generated /\ ~policy.readable) =>
    /\ policy.strength \in {"MEDIUM", "STRONG"} => ClassGuarantee(1)
    /\ policy.strength = "VERY_STRONG" => ClassGuarantee(2)

\* a VERY_STRONG password of the minimum length: all of it is required
\* characters, two of each class
C2_Witness ==
  /\ Generated
  /\ ~policy.readable
  /\ policy.strength = "VERY_STRONG"
  /\ policy.length = MIN_LENGTH
  /\ ClassGuarantee(2)

\* C3: with exclude_ambiguous set, no character of a generated password is
\* one of the ambiguous characters, for every tier and mode.
C3_NoAmbiguous ==
  (Generated /\ policy.exclude_ambiguous)
    => \A i \in DOMAIN result.value : result.value[i] \notin Ambiguous

\* C4: with length < 8 generate_password raises the validation error for
\* every tier and flag combination, readable included, and returns no
\* password; with length = 8 it succeeds for every tier and flag combination.
C4_LengthValidation ==
  calls > 0 =>
    /\ policy.length < MIN_LENGTH => (result.kind = "ValueError" /\ result.value = <<>>)
    /\ policy.length = MIN_LENGTH => Generated

\* a readable-mode call with length 7 was rejected
C4_Witness ==
  /\ calls > 0
  /\ policy.readable
  /\ policy.length = MIN_LENGTH - 1
  /\ result.kind = "ValueError"

\* C10: with include_special false a generated password holds no special
\* character, for every tier and length >= 8.
C10_NoSpecial ==
  (Generated /\ ~policy.include_special)
    => \A i \in DOMAIN result.value : result.value[i] \notin Specials

\* C11: a WEAK password generated without the readable flag consists only
\* of lowercase letters, uppercase letters and digits, whatever the value of
\* include_special.
C11_WeakAlphanumeric ==
  (Generated /\ ~policy.readable /\ policy.strength = "WEAK")
    => \A i \in DOMAIN result.value :
         result.value[i] \in (Lowers \cup Uppers \cup Digits)

\* a WEAK password was generated with include_special set, and it mixes
\* letters and digits
C11_Witness ==
  /\ Generated
  /\ ~policy.readable
  /\ policy.strength = "WEAK"
  /\ policy.include_special
  /\ Count(result.value, Uppers) > 0
  /\ Count(result.value, Digits) > 0

\* C12: every password generated from the tier dispatch, WEAK included,
\* holds at least one lowercase letter and at least one digit, and a WEAK
\* password also holds at least one uppercase letter.
C12_WeakClassesPresent ==
  (Generated /\ ~policy.readable) =>
    /\ Count(result.value, Lowers) >= 1
    /\ Count(result.value, Digits) >= 1
    /\ policy.strength = "WEAK" => Count(result.value, Uppers) >= 1

\* C13: for every input list, _shuffle_list returns a permutation of it:
\* the same length and the same number of occurrences of every character,
\* nothing added, removed or altered; and the call never writes the caller's
\* list.
C13_ShufflePermutation ==
  /\ [](calls > 0 =>
          /\ Len(list_ret) = Len(list_arg)
          /\ \A c \in Range(list_arg) \cup Range(list_ret) :
                Count(list_ret, {c}) = Count(list_arg, {c}))
  /\ [][list_arg' = list_arg]_vars

\* a list with a repeated character came back in another order
C13_Witness ==
  /\ calls > 0
  /\ Len(list_arg) = 4
  /\ Count(list_arg, {97}) = 2
  /\ list_ret # list_arg

\* the password pw holds at least k characters of each of the four classes
HoldsEach(pw, k) ==
  /\ Count(pw, Uppers) >= k
  /\ Count(pw, Lowers) >= k
  /\ Count(pw, Digits) >= k
  /\ Count(pw, Specials) >= k

\* C14: generate_multiple(count, length, strength) with length >= 8 returns
\* a list of exactly count passwords; each has exactly length characters and
\* the class guarantee of the tier (WEAK: letters and digits only; MEDIUM
\* and STRONG: one of each class; VERY_STRONG: two of each class).
C14_BatchOfCount ==
  (calls > 0 /\ policy.length >= MIN_LENGTH) =>
    /\ batch.kind = "list"
    /\ Len(batch.value) = batch_count
    /\ \A i \in DOMAIN batch.value :
         /\ Len(batch.value[i]) = policy.length
         /\ policy.strength = "WEAK" =>
              Range(batch.value[i]) \subseteq (Lowers \cup Uppers \cup Digits)
         /\ policy.strength \in {"MEDIUM", "STRONG"} => HoldsEach(batch.value[i], 1)
         /\ policy.strength = "VERY_STRONG" => HoldsEach(batch.value[i], 2)

\* a batch of two STRONG passwords that are the same password: uniqueness
\* is not enforced
C14_Witness ==
  /\ batch.kind = "list"
  /\ batch_count = 2
  /\ policy.strength = "STRONG"
  /\ Len(batch.value) = 2
  /\ batch.value[1] = batch.value[2]

(* ====================== properties of the checker ====================== *)
Checked == verdict.kind = "verdict"

IsAscii(pw) == \A i \in DOMAIN pw : pw[i] \in 0..127

\* C5: for every non-empty ASCII password the verdict has an integer score
\* with 0 <= score <= 100 and entropy_bits >= 0.
C5_ScoreRange ==
  (verdict.kind # "none" /\ password # <<>> /\ IsAscii(password))
    => (Checked /\ verdict.score \in 0..100 /\ verdict.entropy_bits >= 0)

\* a non-empty ASCII password was scored in the top tier
C5_Witness ==
  /\ Checked
  /\ password # <<>>
  /\ IsAscii(password)
  /\ verdict.score >= 80
  /\ verdict.entropy_bits > 0

\* C6: in every verdict the tier matches the reported integer score: STRONG
\* iff score >= 80, MEDIUM iff 60 <= score < 80, WEAK iff 40 <= score < 60,
\* VERY WEAK iff score < 40.
C6_TierMatchesScore ==
  Checked =>
    /\ verdict.overall_strength = "STRONG" <=> verdict.score >= 80
    /\ verdict.overall_strength = "MEDIUM" <=> (verdict.score >= 60 /\ verdict.score < 80)
    /\ verdict.overall_strength = "WEAK" <=> (verdict.score >= 40 /\ verdict.score < 60)
    /\ verdict.overall_strength = "VERY WEAK" <=> verdict.score < 40

\* C7: check_password on the empty password raises nothing and returns the
\* fixed verdict: VERY WEAK, score 0, entropy 0, all 8 criteria FAIL.
C7_EmptyVerdict ==
  (verdict.kind # "none" /\ password = <<>>) =>
    /\ Checked
    /\ verdict.overall_strength = "VERY WEAK"
    /\ verdict.score = 0
    /\ verdict.entropy_bits = 0
    /\ Len(verdict.criteria) = 8
    /\ \A k \in DOMAIN verdict.criteria : verdict.criteria[k][2] = "FAIL"

\* the empty password was checked
C7_Witness == Checked /\ password = <<>>

\* the order of the criteria that C8 names
C8_Order == <<"length", "uppercase", "lowercase", "numbers", "special_chars",
              "no_dictionary_words", "no_keyboard_patterns", "no_sequential_chars">>

\* C8: every verdict, of the empty and of every non-empty password, has the
\* same shape: exactly the 8 criteria in the fixed order, each PASS or FAIL;
\* exactly the feedback lists positive, negative, suggestions; and a password
\* field that is the mask "***", not the input.
C8_VerdictShape ==
  Checked =>
    /\ [k \in DOMAIN verdict.criteria |-> verdict.criteria[k][1]] = C8_Order
    /\ \A k \in DOMAIN verdict.criteria : verdict.criteria[k][2] \in {"PASS", "FAIL"}
    /\ DOMAIN verdict.feedback = {"positive", "negative", "suggestions"}
    /\ verdict.password = MASK
    /\ password # MASK => verdict.password # password

\* a non-empty password was checked and has criteria of both kinds
C8_Witness ==
  /\ Checked
  /\ password # <<>>
  /\ \E k \in DOMAIN verdict.criteria : verdict.criteria[k][2] = "PASS"
  /\ \E k \in DOMAIN verdict.criteria : verdict.criteria[k][2] = "FAIL"

\* C9: for every password with a keyboard-walk substring that the check
\* detects (and the feedback reports), the criterion no_keyboard_patterns is
\* FAIL.
C9_KeyboardCriterion ==
  (Checked /\ password # <<>> /\ _has_keyboard_pattern(password)) =>
    /\ verdict.criteria[7][1] = "no_keyboard_patterns"
    /\ verdict.criteria[7][2] = "FAIL"

\* C15: check_password never modifies the dictionary of the engine; in
\* every sequence or interleaving of calls on one shared engine a call
\* returns the verdict check_password gives for its password on that engine
\* alone, and two calls on the same password return identical verdicts.
C15_NoHiddenState ==
  /\ [][common_passwords' = common_passwords]_vars
  /\ [](\A c \in Callers :
          pc[c] = "done" => ret[c] = check_password(arg[c], common_passwords))
  /\ [](\A c1, c2 \in Callers :
          (pc[c1] = "done" /\ pc[c2] = "done" /\ arg[c1] = arg[c2])
            => ret[c1] = ret[c2])

\* two callers have checked the same dictionary password on an engine with
\* a dictionary, and both got a verdict
C15_Witness ==
  /\ common_passwords # <<>>
  /\ pc[1] = "done"
  /\ pc[2] = "done"
  /\ arg[1] = arg[2]
  /\ arg[1] \in Range(common_passwords)
  /\ ret[1].kind = "verdict"
  /\ ret[1] = ret[2]

\* C16: appending characters to a password never decreases its diversity
\* sub-score: _check_character_diversity(p + s) >= _check_character_diversity(p)
\* for every password p and every appended string s.
C16_DiversityMonotone ==
  diversity.kind = "scores" => diversity.after >= diversity.before

\* a password without special characters got one appended and its
\* diversity sub-score rose
C16_Witness ==
  /\ diversity.kind = "scores"
  /\ password # <<>>
  /\ ~_has_special_chars(password)
  /\ suffix = <<33>>
  /\ diversity.after = diversity.before + 25

\* C17: with exclude_ambiguous false, get_charset_size returns the sum of
\* 26 (uppercase), 26 (lowercase), 10 (digits) and 32 (special) over the
\* enabled classes, so 94 when all four classes are enabled.
C17_CharsetSize ==
  (utility.kind = "sizes" /\ ~size_flags.exclude_ambiguous) =>
    utility.size = (IF size_flags.include_uppercase THEN 26 ELSE 0)
                   + (IF size_flags.include_lowercase THEN 26 ELSE 0)
                   + (IF size_flags.include_digits THEN 10 ELSE 0)
                   + (IF size_flags.include_special THEN 32 ELSE 0)

\* pw is made only of ASCII letters, digits and characters of the special
\* catalog of the generator
CatalogOnly(pw) ==
  \A i \in DOMAIN pw : pw[i] \in (Lowers \cup Uppers \cup Digits \cup Specials)

\* what get_charset_size returns for exactly the classes present in pw
CharsetSizeOf(pw) ==
  get_charset_size(Count(pw, Uppers) > 0, Count(pw, Lowers) > 0,
                   Count(pw, Digits) > 0, Count(pw, Specials) > 0, FALSE)

\* C18: for every password made only of ASCII letters, digits and catalog
\* special characters, the entropy computed inside check_password equals
\* calculate_entropy(len(p), c), c being the charset size get_charset_size
\* returns for exactly the classes present in p.
C18_EntropyRoundTrip ==
  (Checked /\ CatalogOnly(password)) =>
    /\ _calculate_entropy(password)
         = calculate_entropy(Len(password), CharsetSizeOf(password))
    /\ verdict.entropy_bits
         = RoundHalfEven(calculate_entropy(Len(password), CharsetSizeOf(password)),
                         10000)

\* C19: check_password is total: for every input string, very long and
\* non-ASCII ones included, the call returns a verdict and raises nothing.
C19_Total == verdict.kind # "none" => verdict.kind = "verdict"

\* one of the four classes is detected in pw by the charset detection
ClassDetected(pw) ==
  \E i \in DOMAIN pw : pw[i] \in (97..122) \cup (65..90) \cup (48..57) \cup SpecialClass

\* C20: entropy_bits is 0 only when the password is empty or no class is
\* detected in it: for every non-empty password with a detected class the
\* entropy is length * log2(charset_size) > 0, at least length * log2(10).
C20_EntropyZeroOnly ==
  Checked =>
    /\ (password # <<>> /\ ClassDetected(password)) =>
         /\ verdict.entropy_bits > 0
         /\ _calculate_entropy(password) >= Len(password) * Log2Micro(DIGITS_SIZE)
    /\ verdict.entropy_bits = 0 => (password = <<>> \/ ~ClassDetected(password))

\* a password of non-ASCII characters and one special character was
\* checked: the special class is detected and the entropy is 3 * log2(32)
C20_Witness ==
  /\ Checked
  /\ password = <<201, 1635, 33>>
  /\ ClassDetected(password)
  /\ verdict.entropy_bits = 1500

(* ====================== properties of the construction ================= *)
\* the exact-match stage of _check_dictionary matches pw in dict
ExactStage(pw, dict) ==
  lower(pw) \in Range(dict) \/ _normalize_leet_speak(lower(pw)) \in Range(dict)

\* the fuzzy stage of _check_dictionary matches pw against an entry of dict
FuzzyStage(pw, dict) ==
  \E k \in DOMAIN dict : SimilarityGeq(_normalize_leet_speak(lower(pw)), dict[k], 85)

\* C21: a missing dictionary file is not an error: the construction ends
\* with a constructed engine whose dictionary is empty (a warning is
\* printed, nothing is raised), and every later check_password returns a
\* verdict in which neither the exact-match stage nor the fuzzy stage matched.
C21_MissingSourceRecovered ==
  (~source.exists /\ engine.status \notin {"given", "pending"}) =>
    /\ engine = [status |-> "constructed", warning |-> TRUE]
    /\ common_passwords = <<>>
    /\ verdict # NoVerdict =>
         /\ verdict.kind = "verdict"
         /\ ~ExactStage(password, common_passwords)
         /\ ~FuzzyStage(password, common_passwords)
         /\ verdict = check_password(password, <<>>)

\* the engine of a missing file checked "password": the word would be an
\* exact match of a dictionary that lists it, here the weak-pattern stage
\* scores it
C21_Witness ==
  /\ ~source.exists
  /\ engine.status = "constructed"
  /\ common_passwords = <<>>
  /\ password = <<112, 97, 115, 115, 119, 111, 114, 100>>
  /\ verdict.kind = "verdict"
  /\ LET dictionary_score == _check_dictionary(password, common_passwords)
     IN  dictionary_score.n = 10 * dictionary_score.d

(* ====================== properties of the exclusion ==================== *)
\* the number of characters the tier of the policy draws from the classes
\* themselves: 8 for VERY_STRONG, 4 with a special character, 3 without
RequiredCount ==
  IF policy.strength = "VERY_STRONG" THEN 8
  ELSE IF NeedsSpecial THEN 4 ELSE 3

\* C22: in non-readable MEDIUM, STRONG and VERY_STRONG generation with
\* exclude_ambiguous set the guaranteed class representatives are all
\* present, and since every fill character is outside the ambiguous set the
\* password holds at most as many ambiguous characters as there are required
\* characters (3 or 4 for MEDIUM, 4 for STRONG, 8 for VERY_STRONG).
C22_ExclusionAsymmetric ==
  (/\ Generated
   /\ policy.exclude_ambiguous
   /\ ~policy.readable
   /\ policy.strength \in {"MEDIUM", "STRONG", "VERY_STRONG"})
    => /\ ClassGuarantee(IF policy.strength = "VERY_STRONG" THEN 2 ELSE 1)
       /\ Count(result.value, Ambiguous) <= RequiredCount

\* a STRONG password of the greatest length, generated with exclusion, whose
\* four required characters are all ambiguous and whose fill holds none
C22_Witness ==
  /\ Generated
  /\ policy.exclude_ambiguous
  /\ ~policy.readable
  /\ policy.strength = "STRONG"
  /\ policy.length = MaxLen
  /\ Count(result.value, Ambiguous) = 4

(* ====================== properties of the shuffle ====================== *)
\* o holds the items of l, each as often as l: a permutation of l
IsPermutation(o, l) ==
  /\ Len(o) = Len(l)
  /\ \A x \in Range(l) \cup Range(o) : Count(o, {x}) = Count(l, {x})

\* C23: for a list of n distinct items the sequences of swap indices (j in
\* 0..i for i = n-1 down to 1) and the permutations correspond one to one:
\* every output is a permutation, two sequences never give the same output,
\* and after all n! sequences every permutation has been produced, so every
\* item can end at every position.
C23_ShuffleBijection ==
  /\ \A o \in outputs : IsPermutation(o, list_arg)
  /\ Cardinality(outputs) = tried
  /\ (tried > 0 /\ tried = Factorial(Len(list_arg))) =>
       /\ Cardinality(outputs) = Factorial(Len(list_arg))
       /\ \A i, p \in DOMAIN list_arg : \E o \in outputs : o[p] = list_arg[i]

\* all the sequences of swap indices of a list of three or more distinct
\* items were shuffled with, the list itself is among the outputs
C23_Witness ==
  /\ Len(list_arg) >= 3
  /\ tried = Factorial(Len(list_arg))
  /\ Cardinality(outputs) >= 6
  /\ list_arg \in outputs

(* ====================== properties of the readable mode ================ *)
\* a readable password was returned and no digit or special was written in
ReadablePlain ==
  /\ Generated
  /\ policy.readable
  /\ ~(policy.include_special /\ policy.length >= 12)

\* the character at the 0-based index i of the generated password
At(i) == result.value[i + 1]

\* C24 as stated: consonant and vowel positions alternate from a consonant,
\* every index i with i % 5 = 0 holds an uppercase consonant, every other
\* index a lowercase letter.
C24_AsStated ==
  ReadablePlain =>
    \A i \in 0..(Len(result.value) - 1) :
      /\ i % 2 = 1 => At(i) \in Range(vowels)
      /\ i % 5 = 0 => At(i) \in Range(upper(consonants))
      /\ (i % 2 = 0 /\ i % 5 # 0) => At(i) \in Range(consonants)

\* C24: in readable mode without the digit/special overwrite the even
\* indices hold consonants and the odd indices lowercase vowels; the
\* consonant is uppercase exactly at the even indices i with i % 5 = 0, that
\* is at i % 10 = 0, and every other position holds a lowercase letter.
C24_ReadableStructure ==
  ReadablePlain =>
    \A i \in 0..(Len(result.value) - 1) :
      /\ i % 2 = 1 => At(i) \in Range(vowels)
      /\ i % 10 = 0 => At(i) \in Range(upper(consonants))
      /\ (i % 2 = 0 /\ i % 10 # 0) => At(i) \in Range(consonants)

\* a readable password long enough to hold the index 10 was returned: its
\* index 5 holds a lowercase vowel, its index 10 an uppercase consonant
C24_Witness ==
  /\ ReadablePlain
  /\ Len(result.value) > 10
  /\ At(5) \in Range(vowels)
  /\ At(10) \in Range(upper(consonants))

(* ====================== properties of the score ======================== *)
\* the length score of the table 0/20/50/75/100 for <6/<8/<12/<16/else
LengthTable(len) ==
  CASE len < 6 -> 0 [] len \in 6..7 -> 20 [] len \in 8..11 -> 50
    [] len \in 12..15 -> 75 [] OTHER -> 100

\* the entropy sub-score of the table 10/50/75/100 for <30/<50/<70/else,
\* the entropy in micro-bits
EntropyTable(bits) ==
  CASE bits < 30000000 -> 10 [] bits >= 30000000 /\ bits < 50000000 -> 50
    [] bits >= 50000000 /\ bits < 70000000 -> 75 [] OTHER -> 100

\* 100 times the weighted sum of the sub-scores of the checked password, as
\* a fraction
WeightedSum ==
  LET dictionary_score == _check_dictionary(password, common_passwords)
  IN  [n |-> (25 * LengthTable(Len(password))
              + 25 * _check_character_diversity(password)
              + 20 * _check_patterns(password)
              + 10 * EntropyTable(_calculate_entropy(password))) * dictionary_score.d
             + 20 * dictionary_score.n,
       d |-> dictionary_score.d]

WordStage(pw) ==
  \E k \in DOMAIN common_words :
    SimilarityGeq(_normalize_leet_speak(lower(pw)), common_words[k], 80)

\* the fraction x is max(lo, vn / vd), vd > 0
IsMaxOf(x, lo, vn, vd) ==
  IF vn >= lo * vd THEN x.n * vd = vn * x.d ELSE x.n = lo * x.d

SuggestionOf(msg) ==
  CASE msg = "Password too short (use 12+ characters)"
         -> "Increase password length to at least 12 characters"
    [] msg = "Missing uppercase letters" -> "Add uppercase letters (A-Z)"
    [] msg = "Missing lowercase letters" -> "Add lowercase letters (a-z)"
    [] msg = "Missing numbers" -> "Add numbers (0-9)"
    [] msg = "Missing special characters" -> "Add special characters (!@#$%^&*)"
    [] msg = "Contains keyboard walk pattern"
         -> "Avoid keyboard patterns like qwerty or 12345"
    [] msg = "Password contains common words"
         -> "Use random, uncommon words or phrases"
    [] OTHER -> "no suggestion"

GenericSuggestion == "Consider using a password generator for a strong password"

\* no message occurs twice in the list
NoRepeat(list) == \A i, j \in DOMAIN list : list[i] = list[j] => i = j

\* C27: in the feedback of a non-empty password every negative message has
\* its suggestion at the same position, the generic suggestion is appended
\* exactly when the positive list is empty, so len(suggestions) =
\* len(negative) + (1 if positive is empty else 0); no message occurs twice
\* in a list and the 16+ and 12+ length messages never occur together.
C27_FeedbackPairing ==
  (Checked /\ password # <<>>) =>
    LET positive == verdict.feedback.positive
        negative == verdict.feedback.negative
        suggestions == verdict.feedback.suggestions
    IN  /\ Len(suggestions) = Len(negative) + (IF positive = <<>> THEN 1 ELSE 0)
        /\ \A k \in DOMAIN negative : suggestions[k] = SuggestionOf(negative[k])
        /\ positive = <<>> <=> GenericSuggestion \in Range(suggestions)
        /\ positive = <<>> => suggestions[Len(suggestions)] = GenericSuggestion
        /\ NoRepeat(positive) /\ NoRepeat(negative) /\ NoRepeat(suggestions)
        /\ ~({"Excellent length (16+ characters)",
              "Good length (12+ characters)"} \subseteq Range(positive))

\* a short password of common words with nothing to praise was checked:
\* the negative messages are paired and the generic suggestion closes the list
C27_Witness ==
  /\ Checked
  /\ password # <<>>
  /\ verdict.feedback.positive = <<>>
  /\ "Password contains common words" \in Range(verdict.feedback.negative)
  /\ Len(verdict.feedback.negative) >= 3
  /\ Len(verdict.feedback.suggestions) = Len(verdict.feedback.negative) + 1

(* ====================== properties of the de-leet ====================== *)
\* the characters that map to nothing: . - _ and space
Stripped == {46, 45, 95, 32}

\* the image of a single character under the substitution table
ImageOf(c) ==
  CASE c \in {64, 52, 94} -> 97          \* @ 4 ^ to a
    [] c \in {51, 8364} -> 101           \* 3 and the euro sign to e
    [] c = 56 -> 98                      \* 8 to b
    [] c \in {57, 54} -> 103             \* 9 6 to g
    [] c \in {49, 124, 33} -> 105        \* 1 | ! to i
    [] c = 48 -> 111                     \* 0 to o
    [] c \in {53, 36} -> 115             \* 5 $ to s
    [] c \in {55, 43} -> 116             \* 7 + to t
    [] c = 50 -> 122                     \* 2 to z
    [] OTHER -> c

\* the concatenation of the images of the characters of s
CharByChar(s) ==
  LET kept == SelectSeq(s, LAMBDA c : c \notin Stripped)
  IN  [i \in DOMAIN kept |-> ImageOf(kept[i])]

\* C28: the output of _normalize_leet_speak is the concatenation of the
\* images of the characters of its input under the substitution table, the
\* characters . - _ and space mapping to nothing and every character
\* outside the table to itself.
C28_CharByChar ==
  leet_out.kind = "text" => leet_out.value = CharByChar(leet_in)

(* ====================== properties of the classification =============== *)
\* the status reported for the criterion of the given name
CriterionStatus(name) ==
  LET k == CHOOSE k \in DOMAIN verdict.criteria : verdict.criteria[k][1] = name
  IN  verdict.criteria[k][2]

\* the regex of _calculate_entropy for the class finds a character in pw
EntropyAddsUpper(pw) == \E i \in DOMAIN pw : pw[i] \in 65..90
EntropyAddsLower(pw) == \E i \in DOMAIN pw : pw[i] \in 97..122
EntropyAddsDigit(pw) == \E i \in DOMAIN pw : pw[i] \in 48..57

\* C29: in every verdict, non-ASCII passwords included, the criterion
\* uppercase / lowercase / numbers is PASS exactly when the entropy
\* computation adds the size of that class (26 / 26 / 10) to the charset.
C29_SameClassification ==
  (Checked /\ password # <<>>) =>
    /\ CriterionStatus("uppercase") = "PASS" <=> EntropyAddsUpper(password)
    /\ CriterionStatus("lowercase") = "PASS" <=> EntropyAddsLower(password)
    /\ CriterionStatus("numbers") = "PASS" <=> EntropyAddsDigit(password)

(* ====================== properties of the enumeration order ============ *)
\* C30: the dictionary sub-score, and so the verdict, depends on the set of
\* the dictionary entries only: an engine that holds the same entries and
\* enumerates them in another order gives the same dictionary score and the
\* same verdict for the checked password, also when several entries have a
\* similarity of 85 or more with different values.
C30_OrderIndependent ==
  Checked =>
    \A other \in Engines :
      Range(other) = Range(common_passwords) =>
        /\ LET x == _check_dictionary(password, other)
               y == _check_dictionary(password, common_passwords)
           IN  x.n * y.d = y.n * x.d
        /\ check_password(password, other) = verdict

====
